---------------------------- MODULE Spec2Model ----------------------------
(***************************************************************************)
(* Model of the risk-managed position and trade-execution engine of the   *)
(* trading bot backend:                                                    *)
(*   - RiskManagementService  (services/risk_management_service.py)        *)
(*   - PortfolioService       (services/portfolio_service.py)              *)
(*   - the celery tasks       (tasks/trading.py, celery.py)                *)
(*   - ExchangeService        (services/exchange_service.py)               *)
(*                                                                         *)
(* Python floats are modelled by exact rationals <<n, d>> (d > 0, lowest   *)
(* terms), so every equality below is an equality of the real-number       *)
(* results the code computes.  None and 0 are both modelled by 0 wherever  *)
(* the code only tests truthiness (`if stop_loss_price:`).                 *)
(***************************************************************************)
EXTENDS Integers, Sequences, FiniteSets, TLC

VARIABLES
    size_args,      \* arguments of one calculate_position_size call + the Portfolio row
    size_result,    \* the dict it returned ("called" = FALSE before the call)
    stop_args,      \* arguments of calculate_stop_loss / calculate_take_profit
    stop_result,    \* the dict calculate_stop_loss returned
    tp_result,      \* the dict calculate_take_profit returned
    portfolio,      \* PortfolioService: the Portfolio row and its PortfolioHolding rows
    rebalance_result, \* the dict execute_rebalancing returned
    value_result,   \* the dict update_portfolio_value returned, with what it stored
    summary_result, \* the dict get_portfolio_summary returned
    position,       \* RiskManagementService: the Position row under management
    trades,         \* Trade rows added by _execute_exit_order
    notifications,  \* calls received by NotificationService
    risk_result,    \* the dict execute_risk_action returned
    risk_check,     \* the dict check_position_risk returned last
    positions,      \* tasks: open positions as seen by RiskManager, by symbol
    queue,          \* celery "trading" queue: execute_trade messages not yet run
    exchange_orders,\* orders accepted by the exchange (create_order returned)
    task_results,   \* outcome of every finished execute_trade task
    needs_manual_review, \* symbols whose position is flagged for manual review
    cycles,         \* number of risk_management_check runs so far
    assess_rows,    \* check_portfolio_risk: the Portfolio row and its Position rows
    assess_limits,  \* the limits passed to check_portfolio_risk
    assess_results, \* the dicts returned by the calls made so far
    ledger,         \* remove_holding: the committed PortfolioHolding and Portfolio rows
    ledger_start,   \* those rows before any call (history)
    calls,          \* per worker: its remove_holding call, session state and result
    cycle_conditions, \* periodic tasks: per active portfolio, whether operations on it fail
    cycle_runs,     \* the finished runs of the periodic portfolio tasks
    orders,         \* cancel endpoint: the Order rows, by order id
    exchange_state, \* what the exchange holds for each order
    cancel_replies, \* HTTP replies of the cancel requests made, per order
    background_tasks, \* cancel_order_on_exchange tasks added and not yet run
    var_active,     \* calculate_portfolio_var: whether the portfolio has active positions
    portfolio_returns, \* the simulated portfolio returns drawn so far
    var_result,     \* the dict calculate_portfolio_var returned
    book,           \* add_holding / remove_holding: the holding and portfolio rows
    book_start,     \* those rows before any call (history)
    book_log        \* the add_holding / remove_holding calls made, with their outcome

sizeVars == <<size_args, size_result>>
stopVars == <<stop_args, stop_result, tp_result>>
rebalVars == <<portfolio, rebalance_result, value_result, summary_result>>
riskVars == <<position, trades, notifications, risk_result, risk_check>>
execVars == <<positions, queue, exchange_orders, task_results, needs_manual_review, cycles>>
assessVars == <<assess_rows, assess_limits, assess_results>>
ledgerVars == <<ledger, ledger_start, calls>>
cycleVars == <<cycle_conditions, cycle_runs>>
cancelVars == <<orders, exchange_state, cancel_replies, background_tasks>>
varVars == <<var_active, portfolio_returns, var_result>>
bookVars == <<book, book_start, book_log>>
lateVars == <<varVars, bookVars>>
restVars == <<assessVars, ledgerVars, cycleVars, cancelVars, lateVars>>
vars == <<sizeVars, stopVars, rebalVars, riskVars, execVars, restVars>>

---------------------------------------------------------------------------
(* Exact rational arithmetic standing for float arithmetic.                *)

Abs(x) == IF x < 0 THEN -x ELSE x

RECURSIVE GCD(_, _)
GCD(a, b) == IF b = 0 THEN a ELSE GCD(b, a % b)

\* n/d in lowest terms with a positive denominator (d # 0)
Rat(n, d) ==
    LET s == IF d < 0 THEN -1 ELSE 1
        g == GCD(Abs(n), Abs(d))
    IN  IF n = 0 THEN <<0, 1>> ELSE <<(s * n) \div g, (s * d) \div g>>

RInt(k) == <<k, 1>>
RAdd(a, b) == Rat(a[1] * b[2] + b[1] * a[2], a[2] * b[2])
RSub(a, b) == Rat(a[1] * b[2] - b[1] * a[2], a[2] * b[2])
RMul(a, b) == Rat(a[1] * b[1], a[2] * b[2])
RDiv(a, b) == Rat(a[1] * b[2], a[2] * b[1])      \* b # 0
RAbs(a) == <<Abs(a[1]), a[2]>>
RLt(a, b) == a[1] * b[2] < b[1] * a[2]
RLe(a, b) == a[1] * b[2] <= b[1] * a[2]
REq(a, b) == a[1] * b[2] = b[1] * a[2]
RMin(a, b) == IF RLe(a, b) THEN a ELSE b
RZero == RInt(0)

---------------------------------------------------------------------------
(* 4.1 Position sizing: RiskManagementService.calculate_position_size      *)

TotalValues == {0, 1000, 10000}
AvailableBalances == {0, 500, 1000, 10000}
EntryPrices == {0, 100, 50000}
StopPrices == {0, 90, 100, 48000}          \* 0: stop_loss_price=None
RiskPercentages == {1, 2}
MaxPositionPercentages == {10, 50}

SizeFailure == [called |-> TRUE, success |-> FALSE, position_size |-> RZero,
                position_value |-> RZero, required_capital |-> RZero]

\* The buffer applied when the required capital exceeds the balance:
\* available_balance / entry_price * 0.95
BalanceCappedSize(available_balance, entry_price) ==
    RMul(Rat(available_balance, entry_price), Rat(95, 100))

\* position size after the balance check (lines 65-68)
ApplyBalanceCheck(position_size, available_balance, entry_price) ==
    LET required_capital == RMul(position_size, RInt(entry_price))
    IN  IF RLt(RInt(available_balance), required_capital)
        THEN BalanceCappedSize(available_balance, entry_price)
        ELSE position_size

\* position size from the risk budget (lines 47-57); entry_price # 0
RiskBasedSize(total_value, entry_price, stop_loss_price, risk_percentage) ==
    LET risk_amount == RMul(RInt(total_value), Rat(risk_percentage, 100))
    IN  IF stop_loss_price # 0
        THEN LET price_risk == Abs(entry_price - stop_loss_price)
             IN  IF price_risk > 0 THEN RDiv(risk_amount, RInt(price_risk)) ELSE RZero
        ELSE RDiv(risk_amount, RMul(RInt(entry_price), Rat(2, 100)))

\* cap by the maximum position value (lines 59-63); entry_price # 0
MaxPositionSize(total_value, entry_price, max_position_percentage) ==
    RDiv(RMul(RInt(total_value), Rat(max_position_percentage, 100)), RInt(entry_price))

calculate_position_size(a) ==
    IF ~a.portfolio_found THEN SizeFailure
    ELSE IF a.entry_price = 0 THEN SizeFailure        \* ZeroDivisionError, caught line 83
    ELSE
      LET by_risk == RiskBasedSize(a.total_value, a.entry_price, a.stop_loss_price,
                                   a.risk_percentage)
          capped == RMin(by_risk, MaxPositionSize(a.total_value, a.entry_price,
                                                  a.max_position_percentage))
          required_capital == RMul(capped, RInt(a.entry_price))
          position_size == ApplyBalanceCheck(capped, a.available_balance, a.entry_price)
      IN  IF a.total_value = 0 THEN SizeFailure       \* risk_amount / total_value, line 77
          ELSE [called |-> TRUE, success |-> TRUE,
                position_size |-> position_size,
                position_value |-> RMul(position_size, RInt(a.entry_price)),
                required_capital |-> required_capital]

SizeArgs ==
    [portfolio_found : BOOLEAN, total_value : TotalValues,
     available_balance : AvailableBalances, entry_price : EntryPrices,
     stop_loss_price : StopPrices, risk_percentage : RiskPercentages,
     max_position_percentage : MaxPositionPercentages]

NoSizeResult == [called |-> FALSE, success |-> FALSE, position_size |-> RZero,
                 position_value |-> RZero, required_capital |-> RZero]

SizeIdle ==
    /\ size_args = [portfolio_found |-> FALSE, total_value |-> 0, available_balance |-> 0,
                    entry_price |-> 0, stop_loss_price |-> 0, risk_percentage |-> 1,
                    max_position_percentage |-> 10]
    /\ size_result = NoSizeResult

CalculatePositionSize ==
    /\ ~size_result.called
    /\ size_result' = calculate_position_size(size_args)
    /\ UNCHANGED size_args

---------------------------------------------------------------------------
(* 4.2 Stop level calculator: calculate_stop_loss / calculate_take_profit  *)

StopEntryPrices == {100, 50000}
PositionTypes == {"long", "short"}
Methods == {"percentage", "atr", "support_resistance", "fixed"}   \* "fixed": no such method
Percentages == {0, 2, 50, 100}
AtrMultipliers == {0, 2, 25}               \* 0: atr_multiplier=None (or 0)
SupportLevels == {0, 90, 100, 120}         \* 0: support_resistance=None
RiskRewardRatios == {0, 2, 3}              \* 0: risk_reward_ratio=None (or 0)
TargetPercentages == {0, 5}                \* 0: target_percentage=None

IsLong(position_type) == position_type = "long"     \* position_type.lower() == 'long'

\* the price computed by lines 100-118; <<0, 1>> stands for None as well as for 0.0
StopLossPrice(entry_price, position_type, method, percentage, atr_multiplier, support_resistance) ==
    IF method = "percentage"
    THEN IF IsLong(position_type)
         THEN RMul(RInt(entry_price), RSub(RInt(1), Rat(percentage, 100)))
         ELSE RMul(RInt(entry_price), RAdd(RInt(1), Rat(percentage, 100)))
    ELSE IF method = "atr" /\ atr_multiplier # 0
    THEN LET estimated_atr == RMul(RInt(entry_price), Rat(2, 100))
         IN  IF IsLong(position_type)
             THEN RSub(RInt(entry_price), RMul(estimated_atr, RInt(atr_multiplier)))
             ELSE RAdd(RInt(entry_price), RMul(estimated_atr, RInt(atr_multiplier)))
    ELSE IF method = "support_resistance" /\ support_resistance # 0
    THEN RInt(support_resistance)
    ELSE RZero

calculate_stop_loss(a) ==
    LET stop_loss_price == StopLossPrice(a.entry_price, a.position_type, a.method,
                                         a.percentage, a.atr_multiplier,
                                         a.support_resistance)
    IN  IF stop_loss_price[1] # 0                         \* `if stop_loss_price:`
        THEN [called |-> TRUE, success |-> TRUE, stop_loss_price |-> stop_loss_price,
              risk_amount |-> RAbs(RSub(RInt(a.entry_price), stop_loss_price))]
        ELSE [called |-> TRUE, success |-> FALSE, stop_loss_price |-> RZero,
              risk_amount |-> RZero]

\* reward_amount of the risk/reward branch (lines 159-160)
RewardAmountWithoutRatio(entry_price, stop_loss_price, risk_reward_ratio) ==
    RAbs(RSub(RInt(entry_price), stop_loss_price))
RewardAmount(entry_price, stop_loss_price, risk_reward_ratio) ==
    RMul(RAbs(RSub(RInt(entry_price), stop_loss_price)), RInt(risk_reward_ratio))

\* the price computed by lines 150-165; stop_loss_price is a rational, <<0, 1>> for None
TakeProfitPrice(entry_price, position_type, risk_reward_ratio, stop_loss_price, target_percentage) ==
    IF target_percentage # 0
    THEN IF IsLong(position_type)
         THEN RMul(RInt(entry_price), RAdd(RInt(1), Rat(target_percentage, 100)))
         ELSE RMul(RInt(entry_price), RSub(RInt(1), Rat(target_percentage, 100)))
    ELSE IF stop_loss_price[1] # 0 /\ risk_reward_ratio # 0
    THEN LET reward_amount == RewardAmount(entry_price, stop_loss_price, risk_reward_ratio)
         IN  IF IsLong(position_type)
             THEN RAdd(RInt(entry_price), reward_amount)
             ELSE RSub(RInt(entry_price), reward_amount)
    ELSE RZero

calculate_take_profit(entry_price, position_type, risk_reward_ratio, stop_loss_price, target_percentage) ==
    LET take_profit_price == TakeProfitPrice(entry_price, position_type, risk_reward_ratio,
                                             stop_loss_price, target_percentage)
    IN  IF take_profit_price[1] # 0                       \* `if take_profit_price:`
        THEN [called |-> TRUE, success |-> TRUE, take_profit_price |-> take_profit_price,
              profit_amount |-> RAbs(RSub(take_profit_price, RInt(entry_price)))]
        ELSE [called |-> TRUE, success |-> FALSE, take_profit_price |-> RZero,
              profit_amount |-> RZero]

StopArgs ==
    [entry_price : StopEntryPrices, position_type : PositionTypes, method : Methods,
     percentage : Percentages, atr_multiplier : AtrMultipliers,
     support_resistance : SupportLevels, risk_reward_ratio : RiskRewardRatios,
     target_percentage : TargetPercentages]

NoStopResult == [called |-> FALSE, success |-> FALSE, stop_loss_price |-> RZero,
                 risk_amount |-> RZero]
NoTpResult == [called |-> FALSE, success |-> FALSE, take_profit_price |-> RZero,
               profit_amount |-> RZero]

StopIdle ==
    /\ stop_args = [entry_price |-> 100, position_type |-> "long", method |-> "percentage",
                    percentage |-> 2, atr_multiplier |-> 2, support_resistance |-> 0,
                    risk_reward_ratio |-> 2, target_percentage |-> 0]
    /\ stop_result = NoStopResult
    /\ tp_result = NoTpResult

CalculateStopLoss ==
    /\ ~stop_result.called
    /\ stop_result' = calculate_stop_loss(stop_args)
    /\ UNCHANGED <<stop_args, tp_result>>

\* the caller feeds the stop it was given (None when calculate_stop_loss failed)
CalculateTakeProfit ==
    /\ stop_result.called
    /\ ~tp_result.called
    /\ tp_result' = calculate_take_profit(stop_args.entry_price, stop_args.position_type,
                                          stop_args.risk_reward_ratio,
                                          stop_result.stop_loss_price,
                                          stop_args.target_percentage)
    /\ UNCHANGED <<stop_args, stop_result>>

---------------------------------------------------------------------------
(* 4.5 Rebalancing planner: PortfolioService                               *)

Symbols == {"BTC/USDT", "ETH/USDT", "XRP/USDT"}
HoldingQuantities == {0, 1, 3}
RiskLevels == {"conservative", "medium", "aggressive", "custom"}
CashBalances == {0, 20, 100}
\* what the price sources yield for a symbol: a last price; 0: no ticker row and
\* no ticker data from the exchange; -1: the lookup raises
SymbolPrices(symbol) ==
    CASE symbol = "BTC/USDT" -> {0, 100}
      [] symbol = "ETH/USDT" -> {-1, 50}
      [] OTHER -> {0, 4}

\* _get_current_price: the price, or None (0) when there is none or the lookup raised
get_current_price_uncaught(source) == source
get_current_price(source) == IF source > 0 THEN source ELSE 0

MinTradeValue == 10

\* _get_target_allocation: weight of a symbol, in percent, by risk level
TargetPercent(risk_level, symbol) ==
    CASE risk_level = "conservative" ->
           (CASE symbol = "BTC/USDT" -> 40 [] symbol = "ETH/USDT" -> 30
              [] symbol \in {"ADA/USDT", "DOT/USDT", "LINK/USDT"} -> 10 [] OTHER -> 0)
      [] risk_level = "aggressive" ->
           (CASE symbol \in {"BTC/USDT", "ETH/USDT"} -> 20
              [] symbol \in {"ADA/USDT", "SOL/USDT"} -> 15
              [] symbol \in {"AVAX/USDT", "MATIC/USDT", "ATOM/USDT"} -> 10 [] OTHER -> 0)
      [] OTHER ->                                   \* 'medium', and the default
           (CASE symbol = "BTC/USDT" -> 30 [] symbol = "ETH/USDT" -> 25
              [] symbol = "ADA/USDT" -> 15
              [] symbol \in {"DOT/USDT", "LINK/USDT", "SOL/USDT"} -> 10 [] OTHER -> 0)

\* target_allocation.get(symbol, 0)
target_weight(pf, symbol) == Rat(TargetPercent(pf.risk_level, symbol), 100)

\* get_portfolio_summary: the holdings it reports (quantity > 0 and a price was found)
SummaryHoldings(pf) ==
    {sym \in DOMAIN pf.holdings :
        pf.holdings[sym].quantity > 0 /\ get_current_price(pf.holdings[sym].price) # 0}

current_value(pf, symbol) ==
    pf.holdings[symbol].quantity * get_current_price(pf.holdings[symbol].price)

RECURSIVE SumValues(_, _)
SumValues(pf, syms) ==
    IF syms = {} THEN 0
    ELSE LET sym == CHOOSE x \in syms : TRUE
         IN  current_value(pf, sym) + SumValues(pf, syms \ {sym})

total_holdings_value(pf) == SumValues(pf, SummaryHoldings(pf))

\* summary['portfolio']['total_value']
summary_total_value_without_cash(pf) == total_holdings_value(pf)
summary_total_value(pf) == pf.cash_balance + total_holdings_value(pf)

\* _calculate_allocation: defined for the reported holdings when their value is > 0
current_allocation(pf) ==
    IF total_holdings_value(pf) > 0
    THEN [sym \in SummaryHoldings(pf) |-> Rat(current_value(pf, sym), total_holdings_value(pf))]
    ELSE [sym \in {} |-> RZero]

\* check_rebalancing_needed: the symbols whose deviation exceeds the threshold
Deviations(pf) ==
    IF ~pf.auto_rebalance THEN {}
    ELSE {sym \in DOMAIN current_allocation(pf) :
            RLt(pf.rebalance_threshold,
                RAbs(RSub(current_allocation(pf)[sym], target_weight(pf, sym))))}

check_rebalancing_needed(pf) == Deviations(pf) # {}

\* value_difference = total_value * target_weight - current_value (lines 448-449)
value_difference(pf, symbol) ==
    RSub(RMul(RInt(summary_total_value(pf)), target_weight(pf, symbol)),
         RInt(current_value(pf, symbol)))

\* the minimum-notional test of line 451
WorthTradingNoMinimum(vd) == RLt(RZero, RAbs(vd))
WorthTrading(vd) == RLt(RInt(MinTradeValue), RAbs(vd))

RebalancingTrade(pf, symbol) ==
    LET vd == value_difference(pf, symbol)
        current_price == get_current_price(pf.holdings[symbol].price)
        quantity_difference == RDiv(vd, RInt(current_price))
    IN  [symbol |-> symbol,
         type |-> IF RLt(RZero, quantity_difference) THEN "BUY" ELSE "SELL",
         quantity |-> RAbs(quantity_difference),
         current_price |-> current_price,
         value_difference |-> vd]

execute_rebalancing(pf) ==
    IF ~check_rebalancing_needed(pf)
    THEN [called |-> TRUE, success |-> TRUE, planned |-> FALSE, rebalancing_trades |-> {}]
    ELSE [called |-> TRUE, success |-> TRUE, planned |-> TRUE,
          rebalancing_trades |->
              {RebalancingTrade(pf, sym) :
                 sym \in {x \in SummaryHoldings(pf) : WorthTrading(value_difference(pf, x))}}]

Portfolios ==
    [auto_rebalance : BOOLEAN, risk_level : RiskLevels, rebalance_threshold : {Rat(5, 100)},
     cash_balance : CashBalances,
     holdings : {h \in [Symbols -> [quantity : HoldingQuantities, price : {-1, 0, 4, 50, 100}]] :
                   \A sym \in Symbols : h[sym].price \in SymbolPrices(sym)}]

\* every symbol the three hard-coded allocations name
AllocationSymbols ==
    {"BTC/USDT", "ETH/USDT", "ADA/USDT", "DOT/USDT", "LINK/USDT", "SOL/USDT",
     "AVAX/USDT", "MATIC/USDT", "ATOM/USDT"}

\* the keys of _get_target_allocation(portfolio)
TargetSymbols(risk_level) == {sym \in AllocationSymbols : TargetPercent(risk_level, sym) > 0}

PricedAt(symbol) == CHOOSE p \in SymbolPrices(symbol) : p > 0

\* portfolios holding exactly the symbols of their target allocation, all priced
TargetPortfolios ==
    UNION {[auto_rebalance : {TRUE}, risk_level : {rl}, rebalance_threshold : {Rat(5, 100)},
            cash_balance : CashBalances,
            holdings : {h \in [TargetSymbols(rl) -> [quantity : {1, 3}, price : {4, 50, 100}]] :
                          \A sym \in TargetSymbols(rl) : h[sym].price = PricedAt(sym)}] :
           rl \in {"conservative", "medium", "aggressive"}}

NoRebalanceResult == [called |-> FALSE, success |-> FALSE, planned |-> FALSE,
                      rebalancing_trades |-> {}]

\* update_portfolio_value: the holdings it values and stores a price for, the
\* total it stores in portfolio.current_balance and returns
update_portfolio_value(pf) ==
    LET updated_holdings ==
            {sym \in DOMAIN pf.holdings :
                pf.holdings[sym].quantity > 0 /\ get_current_price(pf.holdings[sym].price) # 0}
    IN  [called |-> TRUE, success |-> TRUE, holdings |-> updated_holdings,
         total_value |-> pf.cash_balance + SumValues(pf, updated_holdings)]

get_portfolio_summary(pf) ==
    [called |-> TRUE, success |-> TRUE, holdings |-> SummaryHoldings(pf),
     total_value |-> summary_total_value(pf)]

NoValueResult == [called |-> FALSE, success |-> FALSE, holdings |-> {}, total_value |-> 0]

\* the Portfolio and PortfolioHolding rows after planning: neither
\* check_rebalancing_needed nor execute_rebalancing assigns to a row or commits
RECURSIVE PortfolioAfterApplying(_, _)
PortfolioAfterApplying(pf, rebalancing_trades) ==
    IF rebalancing_trades = {} THEN pf
    ELSE LET t == CHOOSE x \in rebalancing_trades : TRUE
         IN  PortfolioAfterApplying(
                 [pf EXCEPT !.cash_balance = IF t.type = "SELL" THEN @ + 1 ELSE @ - 1],
                 rebalancing_trades \ {t})
PortfolioAfterPlanning(pf, rebalancing_trades) == pf

RebalIdle ==
    /\ portfolio = [auto_rebalance |-> FALSE, risk_level |-> "medium",
                    rebalance_threshold |-> Rat(5, 100), cash_balance |-> 0,
                    holdings |-> [sym \in Symbols |-> [quantity |-> 0, price |-> 0]]]
    /\ rebalance_result = NoRebalanceResult
    /\ value_result = NoValueResult
    /\ summary_result = NoValueResult

ExecuteRebalancing ==
    /\ ~rebalance_result.called
    /\ rebalance_result' = execute_rebalancing(portfolio)
    /\ portfolio' = PortfolioAfterPlanning(portfolio, execute_rebalancing(portfolio).rebalancing_trades)
    /\ UNCHANGED <<value_result, summary_result>>

\* the stored current_price / current_value / current_balance are carried by
\* value_result; quantities and cash_balance are not assigned
UpdatePortfolioValue ==
    /\ ~value_result.called
    /\ value_result' = update_portfolio_value(portfolio)
    /\ UNCHANGED <<portfolio, rebalance_result, summary_result>>

GetPortfolioSummary ==
    /\ ~summary_result.called
    /\ summary_result' = get_portfolio_summary(portfolio)
    /\ UNCHANGED <<portfolio, rebalance_result, value_result>>

---------------------------------------------------------------------------
(* 4.3 Position monitor: RiskManagementService.execute_risk_action         *)

MaxTrades == 2          \* Trade rows recorded in one behaviour

MarketPrices == {75, 85, 100, 115, 125}
RiskActions == {"execute_stop_loss", "execute_take_profit", "reduce_position",
                "update_stop_loss", "review_position"}
ClosePercentages == {50, 100}
\* the current_price argument of check_position_risk; 0: not passed (None)
CheckPrices == {0, 95}

\* profit_pct of _calculate_trailing_stop_loss (lines 605-606, 613)
ProfitPct(pos) ==
    IF IsLong(pos.position_type)
    THEN RMul(Rat(pos.current_price - pos.entry_price, pos.entry_price), RInt(100))
    ELSE RMul(Rat(pos.entry_price - pos.current_price, pos.entry_price), RInt(100))

\* _calculate_trailing_stop_loss; <<0, 1>> stands for None.  The `elif profit_pct > 20`
\* branch follows `if profit_pct > 10` and is kept in the order the code has it.
calculate_trailing_stop_loss(pos) ==
    LET profit_pct == ProfitPct(pos)
    IN  IF IsLong(pos.position_type)
        THEN IF RLt(RInt(10), profit_pct) THEN RMul(RInt(pos.entry_price), Rat(102, 100))
             ELSE IF RLt(RInt(20), profit_pct) THEN RMul(RInt(pos.entry_price), Rat(110, 100))
             ELSE RZero
        ELSE IF RLt(RInt(10), profit_pct) THEN RMul(RInt(pos.entry_price), Rat(98, 100))
             ELSE IF RLt(RInt(20), profit_pct) THEN RMul(RInt(pos.entry_price), Rat(90, 100))
             ELSE RZero

\* the stop written by the 'update_stop_loss' branch (lines 421-424)
UpdatedStopLoss(pos, new_stop_loss) == new_stop_loss

\* _execute_exit_order with `quantity > float(position.quantity)` in place of `>=`
ExitedPositionClosingOnlyAbove(pos, quantity) ==
    IF RLt(pos.quantity, quantity)
    THEN [pos EXCEPT !.status = "closed", !.exit_price = pos.current_price,
                     !.exit_time = "utcnow"]
    ELSE [pos EXCEPT !.quantity = RSub(pos.quantity, quantity)]

\* _execute_exit_order: the Position row after the simulated exit (lines 554-564)
ExitedPosition(pos, quantity) ==
    IF RLe(pos.quantity, quantity)
    THEN [pos EXCEPT !.status = "closed", !.exit_price = pos.current_price,
                     !.exit_time = "utcnow"]
    ELSE [pos EXCEPT !.quantity = RSub(pos.quantity, quantity)]

\* _execute_exit_order: the Trade row it adds (lines 567-578)
\* (order_type, notes and the timestamps are not modelled)
ExitTrade(pos, quantity) ==
    [trade_type |-> IF pos.position_type = "long" THEN "sell" ELSE "buy",
     quantity |-> quantity, price |-> pos.current_price]

\* NotificationService.send_risk_alert(user_email, telegram_chat_id, alert_type, message,
\* severity) and send_trade_notification(user_email, telegram_chat_id, trade_data) are
\* called with the keywords user_id=, position_id=, trade_type=, ...: the call raises
\* TypeError before the notifier runs, and execute_risk_action's handler (line 434)
\* turns it into a failure result.
NotifierAccepts(action) == FALSE

NoRiskResult == [action |-> "none", success |-> FALSE, new_stop_loss |-> RZero]

\* check_position_risk, the stop test of lines 312-320
StopLossTriggeredStrictly(pos, current_price) ==
    /\ pos.stop_loss_price[1] # 0
    /\ IF IsLong(pos.position_type)
       THEN RLt(RInt(current_price), pos.stop_loss_price)
       ELSE RLt(pos.stop_loss_price, RInt(current_price))
StopLossTriggered(pos, current_price) ==
    /\ pos.stop_loss_price[1] # 0
    /\ IF IsLong(pos.position_type)
       THEN RLe(RInt(current_price), pos.stop_loss_price)
       ELSE RLe(pos.stop_loss_price, RInt(current_price))

\* lines 323-331
TakeProfitReached(pos, current_price) ==
    /\ pos.take_profit_price # 0
    /\ IF IsLong(pos.position_type)
       THEN current_price >= pos.take_profit_price
       ELSE current_price <= pos.take_profit_price

\* pnl_percentage of lines 301-306
PnlPercentage(pos, current_price) ==
    IF IsLong(pos.position_type)
    THEN Rat((current_price - pos.entry_price) * 100, pos.entry_price)
    ELSE Rat((pos.entry_price - current_price) * 100, pos.entry_price)

\* the large-loss test of lines 333-336
LargeLossBelowTwenty(pos, current_price) ==
    RLt(PnlPercentage(pos, current_price), RInt(-20))
LargeLoss(pos, current_price) ==
    RLt(PnlPercentage(pos, current_price), RInt(-10))

\* check_position_risk(position_id, current_price): the price it used and the
\* actions it proposes; it assigns nothing
check_position_risk(pos, passed_price) ==
    LET current_price == IF passed_price = 0 THEN pos.current_price ELSE passed_price
    IN  [called |-> TRUE, current_price |-> current_price,
         actions |->
            (IF StopLossTriggered(pos, current_price) THEN {"execute_stop_loss"} ELSE {})
            \cup (IF TakeProfitReached(pos, current_price) THEN {"execute_take_profit"} ELSE {})
            \cup (IF LargeLoss(pos, current_price) THEN {"review_position"} ELSE {})
            \cup (IF RLt(RInt(20), PnlPercentage(pos, current_price))
                  THEN {"consider_partial_profit"} ELSE {})]

NoRiskCheck == [called |-> FALSE, current_price |-> 0, actions |-> {}]

RiskIdle ==
    /\ position = [position_type |-> "long", entry_price |-> 100, current_price |-> 100,
                   quantity |-> RInt(0), stop_loss_price |-> RZero,
                   take_profit_price |-> 0, status |-> "closed", exit_price |-> 0,
                   exit_time |-> "none"]
    /\ trades = <<>>
    /\ notifications = 0
    /\ risk_result = NoRiskResult
    /\ risk_check = NoRiskCheck

\* a confirmed entry fill creates the Position; its stop and target come from the order
\* (schemas OrderCreate.stop_loss_price / take_profit_price: optional, unconstrained)
RiskInit ==
    /\ position \in [position_type : PositionTypes, entry_price : {100},
                     current_price : {100}, quantity : {RInt(4)},
                     stop_loss_price : {RZero, RInt(95), RInt(105)},
                     take_profit_price : {0},
                     status : {"active"}, exit_price : {0}, exit_time : {"none"}]
    /\ trades = <<>>
    /\ notifications = 0
    /\ risk_result = NoRiskResult
    /\ risk_check = NoRiskCheck

\* the price feed moves position.current_price
UpdateCurrentPrice(price) ==
    /\ price # position.current_price
    /\ position' = [position EXCEPT !.current_price = price]
    /\ risk_result' = NoRiskResult
    /\ risk_check' = NoRiskCheck
    /\ UNCHANGED <<trades, notifications>>

CheckPositionRisk(passed_price) ==
    /\ risk_check' = check_position_risk(position, passed_price)
    /\ risk_check' # risk_check
    /\ UNCHANGED <<position, trades, notifications, risk_result>>

\* execute_risk_action(position_id, action, percentage), the exit branches
ExecuteExit(action, percentage) ==
    LET quantity_to_close == RMul(position.quantity, Rat(percentage, 100))
        notified == action # "reduce_position"
    IN  /\ action \in {"execute_stop_loss", "execute_take_profit", "reduce_position"}
        /\ Len(trades) < MaxTrades
        /\ position' = ExitedPosition(position, quantity_to_close)
        /\ trades' = Append(trades, ExitTrade(position, quantity_to_close))
        /\ notifications' = IF notified /\ NotifierAccepts(action)
                            THEN notifications + 1 ELSE notifications
        /\ risk_result' = [action |-> action,
                           success |-> ~notified \/ NotifierAccepts(action),
                           new_stop_loss |-> RZero]
        /\ UNCHANGED risk_check

\* execute_risk_action(position_id, 'update_stop_loss')
UpdateStopLoss ==
    LET new_stop_loss == calculate_trailing_stop_loss(position)
    IN  /\ position' = IF new_stop_loss[1] # 0
                       THEN [position EXCEPT
                               !.stop_loss_price = UpdatedStopLoss(position, new_stop_loss)]
                       ELSE position
        /\ risk_result' = [action |-> "update_stop_loss", success |-> new_stop_loss[1] # 0,
                           new_stop_loss |-> new_stop_loss]
        /\ UNCHANGED <<trades, notifications, risk_check>>

\* execute_risk_action with any other action string
UnknownRiskAction(action) ==
    /\ action \notin {"execute_stop_loss", "execute_take_profit", "reduce_position",
                      "update_stop_loss"}
    /\ risk_result' = [action |-> action, success |-> FALSE, new_stop_loss |-> RZero]
    /\ UNCHANGED <<position, trades, notifications, risk_check>>

ExecuteRiskAction(action, percentage) ==
    \/ ExecuteExit(action, percentage)
    \/ action = "update_stop_loss" /\ UpdateStopLoss
    \/ UnknownRiskAction(action)

---------------------------------------------------------------------------
(* 4.6 Execution coordinator and scheduler: tasks/trading.py               *)

MaxCycles == 2          \* runs of risk_management_check in one behaviour

ExecSymbols == {"BTC/USDT", "ETH/USDT"}
ExecPrices == {90, 110}
MaxPositionQuantity == 4    \* the position-size limit of the (absent) RiskManager

\* RiskManager.check_all_positions is imported from app.services.risk_management, a
\* module the repository does not contain; it is modelled from the Position Monitor of
\* the design: an open position whose price is at or through its stop yields a 'stop_loss'
\* violation for the full remaining quantity, an open position above the size limit
\* a 'position_size' violation for the excess.
StopBreached(pos) ==
    /\ pos.stop_loss # 0
    /\ IF pos.side = "buy" THEN pos.current_price <= pos.stop_loss
                           ELSE pos.current_price >= pos.stop_loss

ViolationsOf(symbol) ==
    LET pos == positions[symbol]
        stop == IF pos.status = "open" /\ StopBreached(pos)
                THEN <<[type |-> "stop_loss", symbol |-> symbol, side |-> pos.side,
                        quantity |-> pos.quantity, excess_quantity |-> 0]>>
                ELSE <<>>
        size == IF pos.status = "open" /\ pos.quantity > MaxPositionQuantity
                THEN <<[type |-> "position_size", symbol |-> symbol, side |-> pos.side,
                        quantity |-> pos.quantity,
                        excess_quantity |-> pos.quantity - MaxPositionQuantity]>>
                ELSE <<>>
    IN  stop \o size

check_all_positions == ViolationsOf("BTC/USDT") \o ViolationsOf("ETH/USDT")

\* the execute_trade.delay(...) message risk_management_check sends for one violation
\* (lines 196-217); <<>> for a violation type it takes no action on
DispatchFor(violation) ==
    IF violation.type = "stop_loss"
    THEN <<[symbol |-> violation.symbol,
            side |-> IF violation.side = "buy" THEN "sell" ELSE "buy",
            order_type |-> "market", quantity |-> violation.quantity]>>
    ELSE IF violation.type = "position_size"
    THEN <<[symbol |-> violation.symbol,
            side |-> IF violation.side = "buy" THEN "sell" ELSE "buy",
            order_type |-> "market", quantity |-> violation.excess_quantity]>>
    ELSE <<>>

RECURSIVE DispatchAll(_)
DispatchAll(violations) ==
    IF violations = <<>> THEN <<>>
    ELSE DispatchFor(Head(violations)) \o DispatchAll(Tail(violations))

\* risk_management_check, scheduled every 300 s by celery beat
RiskManagementCheck ==
    /\ cycles < MaxCycles
    /\ queue' = queue \o DispatchAll(check_all_positions)
    /\ cycles' = cycles + 1
    /\ UNCHANGED <<positions, exchange_orders, task_results, needs_manual_review>>

\* PortfolioService.update_after_trade is called by execute_trade (lines 90-95) but is
\* defined nowhere in the repository; it is modelled from the design's position
\* lifecycle: a confirmed fill reduces the open position, closing it when nothing remains.
update_after_trade(pos, filled) ==
    IF pos.status # "open" THEN pos
    ELSE IF filled >= pos.quantity THEN [pos EXCEPT !.status = "closed", !.quantity = 0]
    ELSE [pos EXCEPT !.quantity = pos.quantity - filled]

\* number of exchange calls execute_trade makes for one message: place_order is called
\* once (lines 82-88) and the handler of line 119 returns; the task never calls self.retry
ExchangeAttempts == 1

\* the outcome execute_trade returns when the exchange call raised (lines 119-125)
ExchangeFailureOutcome == "error"

\* what execute_trade does to needs_manual_review when the exchange call raised: nothing
FlagAfterFailure(flagged, symbol) == flagged

\* execute_trade, run by a worker for the message at the head of the queue.
\* risk_allowed: RiskManager.validate_trade (absent, any answer);
\* exchange_ok: whether place_order / simulate_order returned or raised
ExecuteTrade(risk_allowed, exchange_ok) ==
    /\ queue # <<>>
    /\ LET msg == Head(queue)
           outcome == IF ~risk_allowed THEN "risk_rejected"
                      ELSE IF ~exchange_ok THEN ExchangeFailureOutcome
                      ELSE "success"
       IN  /\ queue' = Tail(queue)
           /\ exchange_orders' =
                 IF outcome = "success"
                 THEN [exchange_orders EXCEPT ![msg.symbol] = @ + 1]
                 ELSE exchange_orders
           /\ positions' =
                 IF outcome = "success"
                 THEN [positions EXCEPT ![msg.symbol] = update_after_trade(@, msg.quantity)]
                 ELSE positions
           /\ task_results' =
                 [task_results EXCEPT ![msg.symbol] =
                    [@ EXCEPT ![outcome] = @ + 1,
                              !.attempts = IF risk_allowed THEN ExchangeAttempts ELSE 0]]
           /\ needs_manual_review' =
                 IF risk_allowed /\ ~exchange_ok
                 THEN FlagAfterFailure(needs_manual_review, msg.symbol)
                 ELSE needs_manual_review
    /\ UNCHANGED cycles

\* update_prices: the price feed moves a position's current price
UpdatePrices(symbol, price) ==
    /\ positions[symbol].current_price # price
    /\ positions' = [positions EXCEPT ![symbol].current_price = price]
    /\ UNCHANGED <<queue, exchange_orders, task_results, needs_manual_review, cycles>>

NoTaskResults == [success |-> 0, risk_rejected |-> 0, error |-> 0, attempts |-> 0]

ExecIdle ==
    /\ positions = [sym \in ExecSymbols |->
                      [side |-> "buy", quantity |-> 0, current_price |-> 100,
                       stop_loss |-> 0, status |-> "closed"]]
    /\ queue = <<>>
    /\ exchange_orders = [sym \in ExecSymbols |-> 0]
    /\ task_results = [sym \in ExecSymbols |-> NoTaskResults]
    /\ needs_manual_review = {}
    /\ cycles = 0

\* one long (BTC, stop 95) and one short (ETH, stop 105) position, entered at 100
ExecInit ==
    /\ positions \in
          {f \in [ExecSymbols -> [side : {"buy", "sell"}, quantity : {2, 6},
                                  current_price : {100}, stop_loss : {95, 105},
                                  status : {"open"}]] :
             /\ f["BTC/USDT"].side = "buy" /\ f["BTC/USDT"].stop_loss = 95
             /\ f["ETH/USDT"].side = "sell" /\ f["ETH/USDT"].stop_loss = 105}
    /\ queue = <<>>
    /\ exchange_orders = [sym \in ExecSymbols |-> 0]
    /\ task_results = [sym \in ExecSymbols |-> NoTaskResults]
    /\ needs_manual_review = {}
    /\ cycles = 0

---------------------------------------------------------------------------
(* 4.4 Portfolio risk aggregator: RiskManagementService.check_portfolio_risk *)

MaxAssessments == 2     \* calls of check_portfolio_risk in one behaviour

\* Position rows in the order the query returns them
AssessOrder == <<"BTC/USDT", "EUR/USD">>
AssessSymbols == {AssessOrder[i] : i \in 1..Len(AssessOrder)}
AssessTotalValues == {0, 100, 1000}
AssessRows ==
    [total_value : AssessTotalValues,
     positions : [AssessSymbols -> [quantity : {1, 2}, current_price : {50, 100},
                                    stop_loss_price : {0, 45, 90},
                                    status : {"active", "closed"}]]]
AssessLimits == [max_portfolio_risk : {5, 10}, max_sector_concentration : {30}]

\* positions with status == 'active' (lines 200-203)
ActivePositions(rows) ==
    SelectSeq(AssessOrder, LAMBDA sym : rows.positions[sym].status = "active")

position_value(p) == p.quantity * p.current_price

\* (position_value / total_value) * 100; total_value # 0
position_percentage(p, total_value) == Rat(position_value(p) * 100, total_value)

\* lines 227-231
position_risk(p, total_value) ==
    IF p.stop_loss_price # 0
    THEN Rat(Abs(p.current_price - p.stop_loss_price) * p.quantity * 100, total_value)
    ELSE RMul(position_percentage(p, total_value), Rat(2, 100))

RECURSIVE SumRisk(_, _)
SumRisk(rows, syms) ==
    IF syms = <<>> THEN RZero
    ELSE RAdd(position_risk(rows.positions[Head(syms)], rows.total_value),
              SumRisk(rows, Tail(syms)))

total_risk(rows) == SumRisk(rows, ActivePositions(rows))

\* f"{x:.1f}" of a non-negative x, as a number of tenths (halves rounded up)
Tenths(r) == (r[1] * 20 + r[2]) \div (2 * r[2])

\* lines 241-243, one entry per large position
RECURSIVE PositionWarnings(_, _)
PositionWarnings(rows, syms) ==
    IF syms = <<>> THEN <<>>
    ELSE LET pct == position_percentage(rows.positions[Head(syms)], rows.total_value)
         IN  (IF RLt(RInt(15), pct)
              THEN <<[kind |-> "large_position", subject |-> Head(syms), shown |-> Tenths(pct)]>>
              ELSE <<>>) \o PositionWarnings(rows, Tail(syms))

\* _calculate_sector_concentration: the sector of a symbol
SectorOf(symbol) ==
    CASE symbol \in {"BTC/USDT", "ETH/USDT"} -> "crypto"
      [] symbol \in {"EUR/USD"} -> "forex"
      [] OTHER -> "other"

SectorOrder == <<"crypto", "forex", "commodities", "other">>

RECURSIVE SectorValue(_, _, _)
SectorValue(rows, syms, sector) ==
    IF syms = <<>> THEN 0
    ELSE (IF SectorOf(Head(syms)) = sector THEN position_value(rows.positions[Head(syms)]) ELSE 0)
         + SectorValue(rows, Tail(syms), sector)

sector_concentration(rows, sector) ==
    Rat(SectorValue(rows, ActivePositions(rows), sector) * 100, rows.total_value)

RECURSIVE SectorWarnings(_, _, _)
SectorWarnings(rows, limits, sectors) ==
    IF sectors = <<>> THEN <<>>
    ELSE LET c == sector_concentration(rows, Head(sectors))
         IN  (IF RLt(RInt(limits.max_sector_concentration), c)
              THEN <<[kind |-> "sector", subject |-> Head(sectors), shown |-> Tenths(c)]>>
              ELSE <<>>) \o SectorWarnings(rows, limits, Tail(sectors))

TotalRiskWarnings(rows, limits) ==
    IF RLt(RInt(limits.max_portfolio_risk), total_risk(rows))
    THEN <<[kind |-> "total_risk", subject |-> "portfolio", shown |-> Tenths(total_risk(rows))]>>
    ELSE <<>>

AssessWarnings(rows, limits) ==
    PositionWarnings(rows, ActivePositions(rows)) \o TotalRiskWarnings(rows, limits)
        \o SectorWarnings(rows, limits, SectorOrder)

\* one recommendation is appended with every warning
Recommendation(w) == [kind |-> w.kind, subject |-> w.subject]

\* lines 258-263 with `<=` in place of `<`
AssessRiskLevelInclusive(risk) ==
    IF RLe(risk, RInt(5)) THEN "low" ELSE IF RLe(risk, RInt(10)) THEN "medium" ELSE "high"

\* lines 258-263
AssessRiskLevel(risk) ==
    IF RLt(risk, RInt(5)) THEN "low" ELSE IF RLt(risk, RInt(10)) THEN "medium" ELSE "high"

check_portfolio_risk(rows, limits) ==
    IF ActivePositions(rows) = <<>>
    THEN [success |-> TRUE, total_risk |-> RZero, risk_level |-> "low",
          warnings |-> <<>>, recommendations |-> <<>>]
    ELSE IF rows.total_value = 0             \* ZeroDivisionError, caught at line 276
    THEN [success |-> FALSE, total_risk |-> RZero, risk_level |-> "none",
          warnings |-> <<>>, recommendations |-> <<>>]
    ELSE [success |-> TRUE, total_risk |-> total_risk(rows),
          risk_level |-> AssessRiskLevel(total_risk(rows)),
          warnings |-> AssessWarnings(rows, limits),
          recommendations |->
              [i \in 1..Len(AssessWarnings(rows, limits)) |->
                  Recommendation(AssessWarnings(rows, limits)[i])]]

\* the rows after a call: the method only queries, it assigns no attribute and
\* never commits
RowsAfterAssessmentRecordingRisk(rows) == [rows EXCEPT !.total_value = 0]
RowsAfterAssessment(rows) == rows

AssessIdle ==
    /\ assess_rows = [total_value |-> 0,
                      positions |-> [sym \in AssessSymbols |->
                          [quantity |-> 1, current_price |-> 50, stop_loss_price |-> 0,
                           status |-> "closed"]]]
    /\ assess_limits = [max_portfolio_risk |-> 10, max_sector_concentration |-> 30]
    /\ assess_results = <<>>

CheckPortfolioRisk ==
    /\ Len(assess_results) < MaxAssessments
    /\ assess_results' = Append(assess_results, check_portfolio_risk(assess_rows, assess_limits))
    /\ assess_rows' = RowsAfterAssessment(assess_rows)
    /\ UNCHANGED assess_limits

---------------------------------------------------------------------------
(* Portfolio ledger: PortfolioService.remove_holding run by concurrent workers *)
(* Each worker has its own session (autoflush off): its writes reach the      *)
(* database at commit, as UPDATEs of the values it computed from its reads.   *)

Workers == {"w1", "w2"}
HeldQuantities == {2, 3}
SoldQuantities == {1, 2, 3, 4}
SalePrices == {10, 20}
AveragePrice == 5
LedgerCashBalances == {0, 100}

\* the committed rows; present = FALSE: no PortfolioHolding row for the symbol
Ledgers ==
    {l \in [present : BOOLEAN, quantity : HeldQuantities \cup {0}, total_cost : 0..15,
            cash_balance : LedgerCashBalances, realized_pnl : {0}] :
        /\ l.present <=> l.quantity > 0
        /\ l.total_cost = l.quantity * AveragePrice}

RemoveCalls ==
    [pc : {"query"}, quantity : SoldQuantities, price : SalePrices, new_quantity : {0},
     cash_balance : {0}, realized_pnl : {0}, result : {"none"}]

\* lines 260-264: the error the call returns without going further, or "none"
RejectionNever(l, c) == "none"
Rejection(l, c) ==
    IF ~l.present THEN "Holding not found"
    ELSE IF l.quantity < c.quantity THEN "Insufficient quantity"
    ELSE "none"

\* lines 254-279: query the holding, check it, compute the new quantity
query_holding(l, c) ==
    IF Rejection(l, c) # "none"
    THEN [c EXCEPT !.pc = "done", !.result = Rejection(l, c)]
    ELSE [c EXCEPT !.pc = "portfolio", !.new_quantity = l.quantity - c.quantity]

\* lines 282-285: query the portfolio, add the proceeds to what was read
query_portfolio(l, c) ==
    [c EXCEPT !.pc = "commit",
              !.cash_balance = l.cash_balance + c.quantity * c.price,
              !.realized_pnl = l.realized_pnl + (c.price - AveragePrice) * c.quantity]

\* line 287: the flush of the session. An UPDATE of a row another session deleted
\* matches no row and raises (rollback, lines 298-301); a DELETE of such a row
\* only warns.
commit(l, c) ==
    IF c.new_quantity > 0 /\ ~l.present
    THEN [ledger |-> l, call |-> [c EXCEPT !.pc = "done", !.result = "error"]]
    ELSE [ledger |->
              [present |-> c.new_quantity > 0,
               quantity |-> IF c.new_quantity > 0 THEN c.new_quantity ELSE 0,
               total_cost |-> IF c.new_quantity > 0 THEN c.new_quantity * AveragePrice ELSE 0,
               cash_balance |-> c.cash_balance,
               realized_pnl |-> c.realized_pnl],
          call |-> [c EXCEPT !.pc = "done", !.result = "success"]]

\* one whole call with nothing running in between
remove_holding(l, c) ==
    IF query_holding(l, c).pc = "done"
    THEN [ledger |-> l, call |-> query_holding(l, c)]
    ELSE commit(l, query_portfolio(l, query_holding(l, c)))

LedgerIdle ==
    /\ ledger = [present |-> FALSE, quantity |-> 0, total_cost |-> 0, cash_balance |-> 0,
                 realized_pnl |-> 0]
    /\ ledger_start = ledger
    /\ calls = [w \in Workers |->
                  [pc |-> "done", quantity |-> 1, price |-> 10, new_quantity |-> 0,
                   cash_balance |-> 0, realized_pnl |-> 0, result |-> "none"]]

QueryHolding(w) ==
    /\ calls[w].pc = "query"
    /\ calls' = [calls EXCEPT ![w] = query_holding(ledger, calls[w])]
    /\ UNCHANGED <<ledger, ledger_start>>

QueryPortfolio(w) ==
    /\ calls[w].pc = "portfolio"
    /\ calls' = [calls EXCEPT ![w] = query_portfolio(ledger, calls[w])]
    /\ UNCHANGED <<ledger, ledger_start>>

Commit(w) ==
    /\ calls[w].pc = "commit"
    /\ ledger' = commit(ledger, calls[w]).ledger
    /\ calls' = [calls EXCEPT ![w] = commit(ledger, calls[w]).call]
    /\ UNCHANGED ledger_start

---------------------------------------------------------------------------
(* 4.6 Periodic portfolio tasks: check_portfolio_rebalancing, update_portfolio_values *)

MaxRuns == 2            \* task runs in one behaviour
NumPortfolios == 3      \* active portfolios, in the order the query returns them

\* update_portfolio_value: every exception is caught inside (lines 172-175)
update_portfolio_value_outcome(condition) ==
    IF condition = "failing" THEN "failure" ELSE "success"

\* check_rebalancing_needed returns a dict on every path (lines 382, 387, 409, 418):
\* `if rebalance_needed:` tests that dict, which is never empty
rebalance_needed_truthy(condition) == TRUE

\* rebalance_portfolio, a method PortfolioService does not define: on a failing
\* portfolio it returns a failure dict or raises
rebalance_portfolio_outcome(condition, raises) ==
    IF condition # "failing" THEN "success" ELSE IF raises THEN "raises" ELSE "failure"

\* the loop of lines 145-161: the portfolios reached before an exception leaves it
RECURSIVE RebalancingLoop(_, _, _)
RebalancingLoop(conditions, id, raises) ==
    IF id > NumPortfolios THEN [processed |-> {}, raised |-> FALSE, count |-> 0]
    ELSE LET outcome == IF rebalance_needed_truthy(conditions[id])
                        THEN rebalance_portfolio_outcome(conditions[id], raises)
                        ELSE "skipped"
             rest == RebalancingLoop(conditions, id + 1, raises)
         IN  IF outcome = "raises"
             THEN [processed |-> {}, raised |-> TRUE, count |-> 0]
             ELSE [processed |-> {id} \cup rest.processed, raised |-> rest.raised,
                   count |-> rest.count + (IF outcome = "success" THEN 1 ELSE 0)]

\* the loop of lines 250-259
RECURSIVE ValuationLoop(_, _)
ValuationLoop(conditions, id) ==
    IF id > NumPortfolios THEN [processed |-> {}, raised |-> FALSE, count |-> 0]
    ELSE LET rest == ValuationLoop(conditions, id + 1)
         IN  [processed |-> {id} \cup rest.processed, raised |-> rest.raised,
              count |-> rest.count +
                  (IF update_portfolio_value_outcome(conditions[id]) = "success" THEN 1 ELSE 0)]

\* the dict a task returns: "success" with its counts, or the outer except's error
TaskRun(task, loop) ==
    [task |-> task, success |-> ~loop.raised, processed |-> loop.processed,
     count |-> IF loop.raised THEN 0 ELSE loop.count]

CycleIdle ==
    /\ cycle_conditions = [id \in 1..NumPortfolios |-> "healthy"]
    /\ cycle_runs = <<>>

CheckPortfolioRebalancing(raises) ==
    /\ Len(cycle_runs) < MaxRuns
    /\ cycle_runs' = Append(cycle_runs,
           TaskRun("check_portfolio_rebalancing", RebalancingLoop(cycle_conditions, 1, raises)))
    /\ UNCHANGED cycle_conditions

UpdatePortfolioValues ==
    /\ Len(cycle_runs) < MaxRuns
    /\ cycle_runs' = Append(cycle_runs,
           TaskRun("update_portfolio_values", ValuationLoop(cycle_conditions, 1)))
    /\ UNCHANGED cycle_conditions

\* a portfolio starts or stops failing between runs
ChangeCondition(id, condition) ==
    /\ Len(cycle_runs) < MaxRuns
    /\ cycle_conditions[id] # condition
    /\ cycle_conditions' = [cycle_conditions EXCEPT ![id] = condition]
    /\ UNCHANGED cycle_runs

---------------------------------------------------------------------------
(* Order cancellation: DELETE /orders/{order_id}                            *)

MaxCancelRequests == 2  \* cancel requests per order in one behaviour
OrderIds == {"o1", "o2"}

\* OrderStatus: the value of a member, by name
OrderStatusValue(name) ==
    CASE name = "PENDING" -> "pending"
      [] name = "PARTIALLY_FILLED" -> "partially_filled"
      [] name = "FILLED" -> "filled"
      [] OTHER -> "cancelled"

\* what order.status is when the endpoint reads it: the OrderStatus member the
\* Enum column loads (a str equal to its value), or the plain name that was
\* assigned (lines 278, 583) when that object is still the session's
StatusRepresentations == {"member", "name"}
StatusAsRead(order, loaded) ==
    IF loaded = "member" THEN OrderStatusValue(order.status) ELSE order.status

\* line 576
CanBeCancelled(order, loaded) == StatusAsRead(order, loaded) \in {"PENDING", "PARTIALLY_FILLED"}

CancelIdle ==
    /\ orders = [id \in OrderIds |-> [status |-> "PENDING"]]
    /\ exchange_state = [id \in OrderIds |-> "open"]
    /\ cancel_replies = [id \in OrderIds |-> <<>>]
    /\ background_tasks = <<>>

\* cancel_order: 400 when the status test fails; otherwise the row is committed
\* as CANCELLED and the exchange-side cancellation is left to a background task
CancelOrder(id, loaded) ==
    /\ Len(cancel_replies[id]) < MaxCancelRequests
    /\ IF CanBeCancelled(orders[id], loaded)
       THEN /\ orders' = [orders EXCEPT ![id].status = "CANCELLED"]
            /\ background_tasks' = Append(background_tasks, id)
            /\ cancel_replies' = [cancel_replies EXCEPT ![id] = Append(@, 200)]
       ELSE /\ cancel_replies' = [cancel_replies EXCEPT ![id] = Append(@, 400)]
            /\ UNCHANGED <<orders, background_tasks>>
    /\ UNCHANGED exchange_state

\* cancel_order_on_exchange: its body is `pass`; ExchangeService.cancel_order is
\* not called, so the exchange keeps the order and the row keeps its status
CancelOrderOnExchange ==
    /\ background_tasks # <<>>
    /\ background_tasks' = Tail(background_tasks)
    /\ UNCHANGED <<orders, exchange_state, cancel_replies>>

\* the exchange fills a resting order, in part or whole
ExchangeFills(id) ==
    /\ exchange_state[id] \in {"open", "partially_filled"}
    /\ \E filled \in {"partially_filled", "filled"} :
          /\ filled # exchange_state[id]
          /\ exchange_state' = [exchange_state EXCEPT ![id] = filled]
    /\ UNCHANGED <<orders, cancel_replies, background_tasks>>

---------------------------------------------------------------------------
(* Value at Risk: RiskManagementService.calculate_portfolio_var             *)

NumSimulations == 3     \* iterations of the simulation loop (range(1000) in the code)

\* daily_return of one iteration, in percent: a weighted sum of normal draws, so
\* any real number
ReturnDraws == {-3, -1, 1, 2}

RECURSIVE InsertSorted(_, _)
InsertSorted(x, sorted) ==
    IF sorted = <<>> THEN <<x>>
    ELSE IF RLe(x, Head(sorted)) THEN <<x>> \o sorted
    ELSE <<Head(sorted)>> \o InsertSorted(x, Tail(sorted))

RECURSIVE SortedReturns(_)
SortedReturns(returns) ==
    IF returns = <<>> THEN <<>> ELSE InsertSorted(Head(returns), SortedReturns(Tail(returns)))

\* np.percentile(a, q), linear interpolation between the order statistics
percentile(returns, q) ==
    LET sorted == SortedReturns(returns)
        rank == (Len(returns) - 1) * q
        lower == rank \div 100
        fraction == Rat(rank % 100, 100)
    IN  IF fraction = RZero THEN sorted[lower + 1]
        ELSE RAdd(sorted[lower + 1],
                  RMul(fraction, RSub(sorted[lower + 2], sorted[lower + 1])))

RECURSIVE SumReturns(_)
SumReturns(returns) ==
    IF returns = <<>> THEN RZero ELSE RAdd(Head(returns), SumReturns(Tail(returns)))

\* np.mean
mean(returns) == RDiv(SumReturns(returns), RInt(Len(returns)))

\* portfolio_returns[portfolio_returns <= var]
tail_losses(returns, var) == SelectSeq(returns, LAMBDA r : RLe(r, var))

\* 100 * (1 - confidence_level) for the default confidence_level of 0.95
VarPercentile == 5

\* the reported magnitude: abs(x) * 100
ReportedLoss(x) == RMul(RAbs(x), RInt(100))

\* calculate_portfolio_var; the *_amount fields are the same magnitudes times
\* portfolio.total_value / 100
calculate_portfolio_var(active, returns) ==
    IF ~active
    THEN [called |-> TRUE, success |-> TRUE, tail |-> 0,
          var_percentage |-> RZero, expected_shortfall_percentage |-> RZero]
    ELSE LET var == percentile(returns, VarPercentile)
             tail == tail_losses(returns, var)
             expected_shortfall == IF Len(tail) > 0 THEN mean(tail) ELSE var
         IN  [called |-> TRUE, success |-> TRUE, tail |-> Len(tail),
              var_percentage |-> ReportedLoss(var),
              expected_shortfall_percentage |-> ReportedLoss(expected_shortfall)]

NoVarResult == [called |-> FALSE, success |-> FALSE, tail |-> 0,
                var_percentage |-> RZero, expected_shortfall_percentage |-> RZero]

VarIdle ==
    /\ var_active = FALSE
    /\ portfolio_returns = <<>>
    /\ var_result = NoVarResult

\* one iteration of the loop of lines 467-477
SimulateReturn(daily_return) ==
    /\ var_active
    /\ ~var_result.called
    /\ Len(portfolio_returns) < NumSimulations
    /\ portfolio_returns' = Append(portfolio_returns, Rat(daily_return, 100))
    /\ UNCHANGED <<var_active, var_result>>

\* the early return of lines 457-458, or the rest of the method after the loop
CalculatePortfolioVar ==
    /\ ~var_result.called
    /\ ~var_active \/ Len(portfolio_returns) = NumSimulations
    /\ var_result' = calculate_portfolio_var(var_active, portfolio_returns)
    /\ UNCHANGED <<var_active, portfolio_returns>>

---------------------------------------------------------------------------
(* Holdings book: PortfolioService.add_holding and remove_holding, one call  *)
(* at a time                                                                  *)

MaxBookCalls == 2       \* calls made in one behaviour

BookQuantities == {1, 2}
BookPrices == {10, 20}
BookCashBalances == {0, 100}

\* present = FALSE: no PortfolioHolding row for the symbol
NoHolding(cash_balance) ==
    [present |-> FALSE, quantity |-> 0, average_price |-> RZero, total_cost |-> RZero,
     cash_balance |-> cash_balance, realized_pnl |-> RZero]

Books ==
    {NoHolding(c) : c \in BookCashBalances}
    \cup {[present |-> TRUE, quantity |-> q, average_price |-> RInt(10),
           total_cost |-> RInt(q * 10), cash_balance |-> c, realized_pnl |-> RZero] :
          q \in BookQuantities, c \in BookCashBalances}

\* add_holding (lines 189-226): the rows after the call; it always succeeds
add_holding(b, quantity, price) ==
    IF b.present
    THEN LET total_cost == RAdd(RMul(RInt(b.quantity), b.average_price), RInt(quantity * price))
             new_quantity == b.quantity + quantity
         IN  [b EXCEPT !.quantity = new_quantity,
                       !.average_price = RDiv(total_cost, RInt(new_quantity)),
                       !.total_cost = total_cost]
    ELSE [b EXCEPT !.present = TRUE, !.quantity = quantity, !.average_price = RInt(price),
                   !.total_cost = RInt(quantity * price)]

\* remove_holding (lines 253-287) run alone: the error it returns, or "none"
BookRejection(b, quantity) ==
    IF ~b.present THEN "Holding not found"
    ELSE IF b.quantity < quantity THEN "Insufficient quantity"
    ELSE "none"

\* remove_holding run alone: the rows after a call that is not rejected
sell_holding(b, quantity, price) ==
    LET realized_pnl == RMul(RSub(RInt(price), b.average_price), RInt(quantity))
        new_quantity == b.quantity - quantity
    IN  IF new_quantity <= 0
        THEN [NoHolding(b.cash_balance + quantity * price) EXCEPT
                 !.realized_pnl = RAdd(b.realized_pnl, realized_pnl)]
        ELSE [b EXCEPT !.quantity = new_quantity,
                       !.total_cost = RMul(RInt(new_quantity), b.average_price),
                       !.cash_balance = b.cash_balance + quantity * price,
                       !.realized_pnl = RAdd(b.realized_pnl, realized_pnl)]

BookIdle ==
    /\ book = NoHolding(0)
    /\ book_start = book
    /\ book_log = <<>>

AddHolding(quantity, price) ==
    /\ Len(book_log) < MaxBookCalls
    /\ book' = add_holding(book, quantity, price)
    /\ book_log' = Append(book_log, [op |-> "add_holding", quantity |-> quantity,
                                     price |-> price, success |-> TRUE])
    /\ UNCHANGED book_start

RemoveHolding(quantity, price) ==
    /\ Len(book_log) < MaxBookCalls
    /\ book' = IF BookRejection(book, quantity) = "none"
               THEN sell_holding(book, quantity, price) ELSE book
    /\ book_log' = Append(book_log, [op |-> "remove_holding", quantity |-> quantity,
                                     price |-> price,
                                     success |-> BookRejection(book, quantity) = "none"])
    /\ UNCHANGED book_start

---------------------------------------------------------------------------
(* Groups frozen by the specifications that do not use them                *)

coreVars == <<sizeVars, stopVars, rebalVars, riskVars, execVars>>
CoreIdle == SizeIdle /\ StopIdle /\ RebalIdle /\ RiskIdle /\ ExecIdle
LateIdle == VarIdle /\ BookIdle
RestIdle == AssessIdle /\ LedgerIdle /\ CycleIdle /\ CancelIdle /\ LateIdle

---------------------------------------------------------------------------
(* Specifications                                                          *)

\* the execution coordinator: scheduler, queue, workers and price feed
Init == ExecInit /\ SizeIdle /\ StopIdle /\ RebalIdle /\ RiskIdle /\ RestIdle

Next ==
    \/ RiskManagementCheck /\ UNCHANGED <<sizeVars, stopVars, rebalVars, riskVars, restVars>>
    \/ \E risk_allowed \in BOOLEAN, exchange_ok \in BOOLEAN :
          ExecuteTrade(risk_allowed, exchange_ok)
          /\ UNCHANGED <<sizeVars, stopVars, rebalVars, riskVars, restVars>>
    \/ \E symbol \in ExecSymbols, price \in ExecPrices :
          UpdatePrices(symbol, price)
          /\ UNCHANGED <<sizeVars, stopVars, rebalVars, riskVars, restVars>>

Spec == Init /\ [][Next]_vars

\* the position monitor operating on one Position row
InitRisk == RiskInit /\ SizeIdle /\ StopIdle /\ RebalIdle /\ ExecIdle /\ RestIdle

NextRisk ==
    \/ \E price \in MarketPrices :
          UpdateCurrentPrice(price)
          /\ UNCHANGED <<sizeVars, stopVars, rebalVars, execVars, restVars>>
    \/ \E action \in RiskActions, percentage \in ClosePercentages :
          ExecuteRiskAction(action, percentage)
          /\ UNCHANGED <<sizeVars, stopVars, rebalVars, execVars, restVars>>

SpecRisk == InitRisk /\ [][NextRisk]_vars

\* the monitoring loop: check a position, then execute the actions the check proposed
NextMonitor ==
    \/ \E price \in MarketPrices :
          UpdateCurrentPrice(price)
          /\ UNCHANGED <<sizeVars, stopVars, rebalVars, execVars, restVars>>
    \/ \E passed_price \in CheckPrices :
          CheckPositionRisk(passed_price)
          /\ UNCHANGED <<sizeVars, stopVars, rebalVars, execVars, restVars>>
    \/ \E action \in risk_check.actions, percentage \in ClosePercentages :
          ExecuteRiskAction(action, percentage)
          /\ UNCHANGED <<sizeVars, stopVars, rebalVars, execVars, restVars>>

SpecMonitor == InitRisk /\ [][NextMonitor]_vars

\* position sizing over its input domain
InitSize ==
    /\ size_args \in SizeArgs
    /\ size_result = NoSizeResult
    /\ StopIdle /\ RebalIdle /\ RiskIdle /\ ExecIdle /\ RestIdle

NextSize == CalculatePositionSize /\ UNCHANGED <<stopVars, rebalVars, riskVars, execVars, restVars>>

SpecSize == InitSize /\ [][NextSize]_vars

\* the stop level calculator over its input domain
InitStop ==
    /\ stop_args \in StopArgs
    /\ stop_result = NoStopResult
    /\ tp_result = NoTpResult
    /\ SizeIdle /\ RebalIdle /\ RiskIdle /\ ExecIdle /\ RestIdle

NextStop ==
    \/ CalculateStopLoss /\ UNCHANGED <<sizeVars, rebalVars, riskVars, execVars, restVars>>
    \/ CalculateTakeProfit /\ UNCHANGED <<sizeVars, rebalVars, riskVars, execVars, restVars>>

SpecStop == InitStop /\ [][NextStop]_vars

\* the rebalancing planner over portfolios
InitRebal ==
    /\ portfolio \in Portfolios \cup TargetPortfolios
    /\ rebalance_result = NoRebalanceResult
    /\ value_result = NoValueResult
    /\ summary_result = NoValueResult
    /\ SizeIdle /\ StopIdle /\ RiskIdle /\ ExecIdle /\ RestIdle

NextRebal ==
    \/ ExecuteRebalancing /\ UNCHANGED <<sizeVars, stopVars, riskVars, execVars, restVars>>
    \/ UpdatePortfolioValue /\ UNCHANGED <<sizeVars, stopVars, riskVars, execVars, restVars>>
    \/ GetPortfolioSummary /\ UNCHANGED <<sizeVars, stopVars, riskVars, execVars, restVars>>

SpecRebal == InitRebal /\ [][NextRebal]_vars

---------------------------------------------------------------------------
\* the portfolio risk aggregator called repeatedly on one set of rows
InitAssess ==
    /\ assess_rows \in AssessRows
    /\ assess_limits \in AssessLimits
    /\ assess_results = <<>>
    /\ CoreIdle /\ LedgerIdle /\ CycleIdle /\ CancelIdle /\ LateIdle

NextAssess == CheckPortfolioRisk /\ UNCHANGED <<coreVars, ledgerVars, cycleVars, cancelVars, lateVars>>

SpecAssess == InitAssess /\ [][NextAssess]_vars

\* two workers, each running one remove_holding call on the same holding
InitLedger ==
    /\ ledger \in Ledgers
    /\ ledger_start = ledger
    /\ calls \in [Workers -> RemoveCalls]
    /\ CoreIdle /\ AssessIdle /\ CycleIdle /\ CancelIdle /\ LateIdle

NextLedger ==
    \/ \E w \in Workers : QueryHolding(w) /\ UNCHANGED <<coreVars, assessVars, cycleVars, cancelVars, lateVars>>
    \/ \E w \in Workers : QueryPortfolio(w) /\ UNCHANGED <<coreVars, assessVars, cycleVars, cancelVars, lateVars>>
    \/ \E w \in Workers : Commit(w) /\ UNCHANGED <<coreVars, assessVars, cycleVars, cancelVars, lateVars>>

SpecLedger == InitLedger /\ [][NextLedger]_vars

\* the periodic portfolio tasks run by celery beat
InitCycle ==
    /\ cycle_conditions \in [1..NumPortfolios -> {"healthy", "failing"}]
    /\ cycle_runs = <<>>
    /\ CoreIdle /\ AssessIdle /\ LedgerIdle /\ CancelIdle /\ LateIdle

NextCycle ==
    \/ \E raises \in BOOLEAN :
          CheckPortfolioRebalancing(raises) /\ UNCHANGED <<coreVars, assessVars, ledgerVars, cancelVars, lateVars>>
    \/ UpdatePortfolioValues /\ UNCHANGED <<coreVars, assessVars, ledgerVars, cancelVars, lateVars>>
    \/ \E id \in 1..NumPortfolios, condition \in {"healthy", "failing"} :
          ChangeCondition(id, condition) /\ UNCHANGED <<coreVars, assessVars, ledgerVars, cancelVars, lateVars>>

SpecCycle == InitCycle /\ [][NextCycle]_vars

\* order cancellation through the API while the exchange works on the orders
InitCancel ==
    /\ orders = [id \in OrderIds |-> [status |-> "PENDING"]]
    /\ exchange_state \in [OrderIds -> {"open", "partially_filled"}]
    /\ cancel_replies = [id \in OrderIds |-> <<>>]
    /\ background_tasks = <<>>
    /\ CoreIdle /\ AssessIdle /\ LedgerIdle /\ CycleIdle /\ LateIdle

NextCancel ==
    \/ \E id \in OrderIds, loaded \in StatusRepresentations :
          CancelOrder(id, loaded) /\ UNCHANGED <<coreVars, assessVars, ledgerVars, cycleVars, lateVars>>
    \/ CancelOrderOnExchange /\ UNCHANGED <<coreVars, assessVars, ledgerVars, cycleVars, lateVars>>
    \/ \E id \in OrderIds :
          ExchangeFills(id) /\ UNCHANGED <<coreVars, assessVars, ledgerVars, cycleVars, lateVars>>

SpecCancel == InitCancel /\ [][NextCancel]_vars

\* Value at Risk over simulated returns
InitVar ==
    /\ var_active \in BOOLEAN
    /\ portfolio_returns = <<>>
    /\ var_result = NoVarResult
    /\ CoreIdle /\ AssessIdle /\ LedgerIdle /\ CycleIdle /\ CancelIdle /\ BookIdle

NextVar ==
    \/ \E daily_return \in ReturnDraws :
          SimulateReturn(daily_return)
          /\ UNCHANGED <<coreVars, assessVars, ledgerVars, cycleVars, cancelVars, bookVars>>
    \/ CalculatePortfolioVar
          /\ UNCHANGED <<coreVars, assessVars, ledgerVars, cycleVars, cancelVars, bookVars>>

SpecVar == InitVar /\ [][NextVar]_vars

\* add_holding and remove_holding called one after the other
InitBook ==
    /\ book \in Books
    /\ book_start = book
    /\ book_log = <<>>
    /\ CoreIdle /\ AssessIdle /\ LedgerIdle /\ CycleIdle /\ CancelIdle /\ VarIdle

NextBook ==
    \/ \E quantity \in BookQuantities, price \in BookPrices :
          AddHolding(quantity, price)
          /\ UNCHANGED <<coreVars, assessVars, ledgerVars, cycleVars, cancelVars, varVars>>
    \/ \E quantity \in BookQuantities, price \in BookPrices :
          RemoveHolding(quantity, price)
          /\ UNCHANGED <<coreVars, assessVars, ledgerVars, cycleVars, cancelVars, varVars>>

SpecBook == InitBook /\ [][NextBook]_vars

---------------------------------------------------------------------------
(* Properties                                                              *)

\* C1: every trailing-stop update leaves the stop at least as protective as the stop it
\* replaced: for a Long the new stop is >= the prior stop, for a Short <= the prior stop,
\* whatever the prior stop was.
C1_TrailingStopMonotonic ==
    [][(/\ position'.stop_loss_price # position.stop_loss_price
        /\ position.stop_loss_price # RZero)
       => IF IsLong(position.position_type)
          THEN RLe(position.stop_loss_price, position'.stop_loss_price)
          ELSE RLe(position'.stop_loss_price, position.stop_loss_price)]_vars

\* C2: the recomputed trailing stop follows the two-tier ladder: gain >= 20% gives
\* entry*1.10 (Short: entry*0.90), gain >= 10% and < 20% gives entry*1.02 (Short: 0.98).
C2_TwoTierLadder ==
    risk_result.action = "update_stop_loss" =>
        LET gain == ProfitPct(position)
            long == IsLong(position.position_type)
            entry == RInt(position.entry_price)
        IN  /\ RLe(RInt(20), gain) =>
                 /\ risk_result.success
                 /\ REq(risk_result.new_stop_loss,
                        RMul(entry, IF long THEN Rat(110, 100) ELSE Rat(90, 100)))
            /\ (RLe(RInt(10), gain) /\ RLt(gain, RInt(20))) =>
                 /\ risk_result.success
                 /\ REq(risk_result.new_stop_loss,
                        RMul(entry, IF long THEN Rat(102, 100) ELSE Rat(98, 100)))

\* execute_trade messages for a symbol that are dispatched and not yet run
QueuedFor(symbol) == Cardinality({i \in 1..Len(queue) : queue[i].symbol = symbol})

\* execute_trade tasks for a symbol that have finished
FinishedFor(symbol) ==
    task_results[symbol].success + task_results[symbol].risk_rejected
        + task_results[symbol].error

\* C3: while no exit order of a position has confirmed, consecutive risk_management_check
\* cycles over a persisting stop-loss breach dispatch one exit order for it in total
\* (positions within the size limit, so that the stop-loss is their only violation).
C3_ExitDedupAcrossCycles ==
    \A symbol \in ExecSymbols :
        (positions[symbol].quantity <= MaxPositionQuantity /\ FinishedFor(symbol) = 0)
            => QueuedFor(symbol) <= 1

\* C4: at most one order is outstanding (dispatched, not yet resolved) per position in
\* every reachable state.
C4_OneOutstandingOrderPerPosition ==
    \A symbol \in ExecSymbols : QueuedFor(symbol) <= 1

\* C5: an exit whose exchange call failed is never dropped: once an execute_trade run
\* has ended in failure at the exchange, the position is flagged needs_manual_review.
C5_FailedExitFlaggedForReview ==
    \A symbol \in ExecSymbols :
        task_results[symbol].error > 0 => symbol \in needs_manual_review

\* valid inputs of calculate_position_size
ValidSizeInputs ==
    /\ size_args.portfolio_found
    /\ size_args.entry_price > 0
    /\ size_args.total_value > 0

\* C6: for valid inputs with a positive balance the returned position value exceeds
\* neither available_balance*0.95 nor total_value*max_position_percentage/100.
C6_PositionValueWithinCaps ==
    (size_result.called /\ size_result.success /\ ValidSizeInputs
       /\ size_args.available_balance > 0)
    => /\ RLe(size_result.position_value,
              RMul(RInt(size_args.available_balance), Rat(95, 100)))
       /\ RLe(size_result.position_value,
              RMul(RInt(size_args.total_value),
                   Rat(size_args.max_position_percentage, 100)))

\* C7: the returned position size is the minimum of the risk bound, the maximum-position
\* bound and the available-balance bound (a stop equal to the entry has no risk bound
\* and is left out).
C7_SizeIsMinimumOfBounds ==
    (size_result.called /\ size_result.success /\ ValidSizeInputs
       /\ size_args.available_balance > 0
       /\ size_args.stop_loss_price # size_args.entry_price)
    => REq(size_result.position_size,
           RMin(RiskBasedSize(size_args.total_value, size_args.entry_price,
                              size_args.stop_loss_price, size_args.risk_percentage),
                RMin(MaxPositionSize(size_args.total_value, size_args.entry_price,
                                     size_args.max_position_percentage),
                     BalanceCappedSize(size_args.available_balance,
                                       size_args.entry_price))))

\* C8: for an existing portfolio with positive entry price and portfolio value,
\* calculate_position_size fails if and only if available_balance <= 0, and a successful
\* result has a non-negative position size.
C8_FailsIffNoCapital ==
    (size_result.called /\ ValidSizeInputs)
    => /\ (~size_result.success) <=> (size_args.available_balance <= 0)
       /\ size_result.success => RLe(RZero, size_result.position_size)

\* the stop returned by calculate_stop_loss was fed into calculate_take_profit with a
\* ratio R and no target percentage
StopFedToTakeProfit ==
    /\ stop_result.called /\ stop_result.success
    /\ tp_result.called
    /\ stop_args.target_percentage = 0
    /\ stop_args.risk_reward_ratio > 0

RewardEqualsRiskTimesRatio ==
    REq(RAbs(RSub(tp_result.take_profit_price, RInt(stop_args.entry_price))),
        RMul(RAbs(RSub(RInt(stop_args.entry_price), stop_result.stop_loss_price)),
             RInt(stop_args.risk_reward_ratio)))

C10_TradesAtLeastMinimumNotional ==
    rebalance_result.called =>
        \A t \in rebalance_result.rebalancing_trades :
            /\ RLe(RInt(MinTradeValue), RAbs(t.value_difference))
            /\ REq(RMul(t.quantity, RInt(t.current_price)), RAbs(t.value_difference))

\* a plan with a proposed trade and with a holding whose non-zero difference was suppressed
C10_Witness ==
    /\ rebalance_result.called
    /\ rebalance_result.rebalancing_trades # {}
    /\ \E sym \in SummaryHoldings(portfolio) :
          /\ ~REq(value_difference(portfolio, sym), RZero)
          /\ \A t \in rebalance_result.rebalancing_trades : t.symbol # sym

\* total value_difference magnitude of the planned trades of one type
RECURSIVE SumTradeValues(_, _)
SumTradeValues(rebalancing_trades, type) ==
    IF rebalancing_trades = {} THEN RZero
    ELSE LET t == CHOOSE x \in rebalancing_trades : TRUE
             rest == SumTradeValues(rebalancing_trades \ {t}, type)
         IN  IF t.type = type THEN RAdd(RAbs(t.value_difference), rest) ELSE rest

HoldsExactlyTargets(pf) == SummaryHoldings(pf) = TargetSymbols(pf.risk_level)

NothingSuppressed(pf) ==
    \A sym \in SummaryHoldings(pf) :
        REq(value_difference(pf, sym), RZero) \/ WorthTrading(value_difference(pf, sym))

BalancedCase ==
    /\ rebalance_result.planned
    /\ HoldsExactlyTargets(portfolio)
    /\ NothingSuppressed(portfolio)

SerialOutcome(first, second) ==
    remove_holding(remove_holding(ledger_start, [calls[first] EXCEPT !.pc = "query"]).ledger,
                   [calls[second] EXCEPT !.pc = "query"]).ledger

AllCallsDone == \A w \in Workers : calls[w].pc = "done" /\ calls[w].result # "none"

RECURSIVE QuantitySold(_)
QuantitySold(ws) ==
    IF ws = {} THEN 0
    ELSE LET w == CHOOSE x \in ws : TRUE
         IN  (IF calls[w].result = "success" THEN calls[w].quantity ELSE 0)
             + QuantitySold(ws \ {w})

RECURSIVE SaleProceeds(_)
SaleProceeds(ws) ==
    IF ws = {} THEN 0
    ELSE LET w == CHOOSE x \in ws : TRUE
         IN  (IF calls[w].result = "success" THEN calls[w].quantity * calls[w].price ELSE 0)
             + SaleProceeds(ws \ {w})

\* C13: two concurrent remove_holding calls on the same holding end in the state of
\* some serial order: the cash balance includes the proceeds of every successful
\* sale and the quantity sold never exceeds the quantity held.
C13_MutationsSerialized ==
    AllCallsDone =>
        /\ ledger \in {SerialOutcome("w1", "w2"), SerialOutcome("w2", "w1")}
        /\ ledger.cash_balance = ledger_start.cash_balance + SaleProceeds(Workers)
        /\ QuantitySold(Workers) <= ledger_start.quantity

RejectedCase(w) ==
    /\ calls[w].pc = "query"
    /\ calls'[w] # calls[w]
    /\ (~ledger.present \/ ledger.quantity < calls[w].quantity)

\* C17: a remove_holding call for more than the held quantity, or for a holding
\* that does not exist, returns an error and changes nothing: the holding's
\* quantity and cost, the cash balance and the realized PnL stay as they were.
C17_RejectedWithoutSideEffects ==
    [][\A w \in Workers :
          RejectedCase(w) =>
              /\ calls'[w].pc = "done"
              /\ calls'[w].result \in {"Holding not found", "Insufficient quantity"}
              /\ ledger' = ledger]_vars

C17_Witness ==
    \E w \in Workers :
        /\ calls[w].result = "Insufficient quantity"
        /\ calls[w].quantity > ledger.quantity
        /\ ledger = ledger_start
        /\ ledger.present

\* C14: a failure while processing one active portfolio does not stop a run of a
\* periodic task: every active portfolio is processed in that run and the run
\* reports its results.
C14_FailureIsolationPerPortfolio ==
    \A i \in 1..Len(cycle_runs) :
        /\ cycle_runs[i].processed = 1..NumPortfolios
        /\ cycle_runs[i].success

\* a holding the two valuations must count: held, and its price lookup gave a price
PriceAvailable(pf, sym) == pf.holdings[sym].quantity > 0 /\ pf.holdings[sym].price > 0

RECURSIVE SumAvailable(_, _)
SumAvailable(pf, syms) ==
    IF syms = {} THEN 0
    ELSE LET sym == CHOOSE x \in syms : TRUE
         IN  (IF PriceAvailable(pf, sym)
              THEN pf.holdings[sym].quantity * pf.holdings[sym].price ELSE 0)
             + SumAvailable(pf, syms \ {sym})

IsolatedValuation(result) ==
    result.called =>
        /\ result.success
        /\ result.holdings = {sym \in DOMAIN portfolio.holdings : PriceAvailable(portfolio, sym)}
        /\ result.total_value =
               portfolio.cash_balance + SumAvailable(portfolio, DOMAIN portfolio.holdings)

\* C15: in update_portfolio_value and get_portfolio_summary a holding whose price
\* lookup returns None or raises is skipped, every other holding is still valued,
\* and the operation succeeds.
C15_MissingPriceIsolated == IsolatedValuation(value_result) /\ IsolatedValuation(summary_result)

C15_Witness ==
    /\ value_result.called /\ summary_result.called
    /\ \E sym \in DOMAIN portfolio.holdings :
          portfolio.holdings[sym].quantity > 0 /\ portfolio.holdings[sym].price = -1
    /\ \E sym \in DOMAIN portfolio.holdings :
          portfolio.holdings[sym].quantity > 0 /\ portfolio.holdings[sym].price = 0
    /\ value_result.holdings # {} /\ summary_result.holdings # {}

\* C18: planning is side-effect-free: a call of execute_rebalancing (and of
\* check_rebalancing_needed inside it) only returns a result; every holding's
\* quantity, the cash balance, the orders and trades stay unchanged and nothing
\* is submitted to the exchange.
C18_PlanningSideEffectFree ==
    [][rebalance_result' # rebalance_result =>
          /\ portfolio' = portfolio
          /\ UNCHANGED <<trades, queue, exchange_orders, positions>>]_vars

C18_Witness ==
    /\ rebalance_result.planned
    /\ \E t \in rebalance_result.rebalancing_trades : t.type = "SELL"
    /\ \E t \in rebalance_result.rebalancing_trades : t.type = "BUY"
    /\ portfolio.cash_balance > 0
    /\ ~HoldsExactlyTargets(portfolio)

\* the cancellation of an order has been handled to the end: a request was made
\* and no exchange-side cancellation of it is still waiting to run
CancellationSettled(id) ==
    /\ cancel_replies[id] # <<>>
    /\ \A i \in 1..Len(background_tasks) : background_tasks[i] # id

StopLossExecuted ==
    /\ position.status = "active"
    /\ "execute_stop_loss" \in risk_check.actions
    /\ Len(trades') = Len(trades) + 1
    /\ risk_result'.action = "execute_stop_loss"

ExitedInFull ==
    /\ REq(trades'[Len(trades')].quantity, position.quantity)
    /\ position'.status = "closed"
    /\ position'.exit_price = position.current_price
    /\ position'.exit_time # "none"

\* check_position_risk proposes 'execute_stop_loss' exactly on an adverse breach
EmittedExactlyOnBreach ==
    (risk_check' # risk_check /\ risk_check'.called /\ position.status = "active"
        /\ position.stop_loss_price[1] # 0) =>
        ("execute_stop_loss" \in risk_check'.actions <=>
            IF position.position_type = "long"
            THEN RLe(RInt(risk_check'.current_price), position.stop_loss_price)
            ELSE RLe(position.stop_loss_price, RInt(risk_check'.current_price)))

ExitFilled == position.status = "active" /\ Len(trades') = Len(trades) + 1

\* C20: an exit for less than the remaining quantity moves an Open position to
\* PartiallyClosed with its quantity reduced by the exited amount, an exit for the
\* full remaining quantity moves it to Closed; no other status results from an exit.
C20_ExitLifecycle ==
    [][ExitFilled =>
          IF RLt(trades'[Len(trades')].quantity, position.quantity)
          THEN /\ position'.status = "partially_closed"
               /\ REq(position'.quantity,
                      RSub(position.quantity, trades'[Len(trades')].quantity))
          ELSE position'.status = "closed"]_vars

\* C21: a position that is not Closed has quantity > 0: an exit of
\* quantity * percentage / 100 with percentage in (0, 100] either leaves a strictly
\* positive remaining quantity or closes the position.
C21_OpenQuantityPositive ==
    position.status # "closed" => RLt(RZero, position.quantity)

\* two partial exits have left an open position holding a quarter of its quantity
C21_Witness ==
    /\ position.status = "active"
    /\ Len(trades) = 2
    /\ REq(trades[1].quantity, RInt(2))
    /\ REq(trades[2].quantity, RInt(1))
    /\ REq(position.quantity, RInt(1))

\* a call of check_position_risk
PositionChecked == risk_check' # risk_check /\ risk_check'.called

\* a call of execute_risk_action with an action it has no branch for
AdvisoryActionPassed ==
    /\ risk_result' # risk_result
    /\ risk_result'.action \notin {"none", "execute_stop_loss", "execute_take_profit",
                                   "reduce_position", "update_stop_loss"}

PositionRecordsUntouched ==
    /\ position' = position
    /\ trades' = trades
    /\ notifications' = notifications

\* C22: a loss beyond -10% makes check_position_risk propose 'review_position'
\* and change nothing; execute_risk_action given 'review_position' (or any action
\* other than the exit, reduce and update-stop actions) changes no position field,
\* records no trade and sends nothing.
C22_ReviewIsAdvisory ==
    [][/\ PositionChecked =>
             /\ PositionRecordsUntouched
             /\ RLt(PnlPercentage(position, risk_check'.current_price), RInt(-10)) =>
                    "review_position" \in risk_check'.actions
       /\ AdvisoryActionPassed =>
             /\ PositionRecordsUntouched
             /\ ~risk_result'.success]_vars

\* 'review_position' was proposed for a loss of 15% and then passed to execute_risk_action
C22_Witness ==
    /\ risk_check.called
    /\ risk_check.current_price = 85
    /\ position.position_type = "long"
    /\ "review_position" \in risk_check.actions
    /\ risk_result.action = "review_position"
    /\ position.status = "active"
    /\ position.quantity = RInt(4)
    /\ trades = <<>>

\* position value of a symbol, 0 when it is not among the reported holdings
HeldValue(pf, sym) == IF sym \in SummaryHoldings(pf) THEN current_value(pf, sym) ELSE 0

\* current weight = position value / total value
WeightOfTotal(pf, sym) ==
    IF summary_total_value(pf) > 0 THEN Rat(HeldValue(pf, sym), summary_total_value(pf))
    ELSE RZero

Flagged(pf, sym) ==
    RLt(pf.rebalance_threshold, RAbs(RSub(WeightOfTotal(pf, sym), target_weight(pf, sym))))

\* |targetValue - currentValue| is at or above the minimum notional
AtLeastMinimumNotional(pf, sym) ==
    RLe(RInt(MinTradeValue),
        RAbs(RSub(RMul(RInt(summary_total_value(pf)), target_weight(pf, sym)),
                  RInt(HeldValue(pf, sym)))))

\* C23: the planner proposes a trade for a symbol if and only if the symbol is
\* flagged (|current weight - target weight| > rebalance_threshold, the current
\* weight of a target symbol that is not held being 0) and its trade is at or
\* above the minimum notional.
C23_TradesExactlyForFlagged ==
    (rebalance_result.called /\ rebalance_result.success /\ portfolio.auto_rebalance) =>
        \A sym \in DOMAIN portfolio.holdings \cup TargetSymbols(portfolio.risk_level) :
            (\E t \in rebalance_result.rebalancing_trades : t.symbol = sym)
                <=> (Flagged(portfolio, sym) /\ AtLeastMinimumNotional(portfolio, sym))

WarnedAbout(r, kind, subject) ==
    \E i \in 1..Len(r.warnings) : r.warnings[i].kind = kind /\ r.warnings[i].subject = subject

ActiveSymbols == {sym \in AssessSymbols : assess_rows.positions[sym].status = "active"}

\* a position's share of the portfolio value, in percent
ShareOfPortfolio(sym) ==
    Rat(assess_rows.positions[sym].quantity * assess_rows.positions[sym].current_price * 100,
        assess_rows.total_value)

ClassifiedByFixedRules(r) ==
    /\ r.risk_level = "low" <=> RLt(r.total_risk, RInt(5))
    /\ r.risk_level = "medium" <=> (RLe(RInt(5), r.total_risk) /\ RLt(r.total_risk, RInt(10)))
    /\ r.risk_level = "high" <=> RLe(RInt(10), r.total_risk)
    /\ ActiveSymbols = {} => (r.risk_level = "low" /\ r.total_risk = RZero /\ r.warnings = <<>>)
    /\ \A sym \in AssessSymbols :
          WarnedAbout(r, "large_position", sym)
              <=> (sym \in ActiveSymbols /\ RLt(RInt(15), ShareOfPortfolio(sym)))
    /\ WarnedAbout(r, "total_risk", "portfolio")
          <=> RLt(RInt(assess_limits.max_portfolio_risk), r.total_risk)

\* C24: every assessment check_portfolio_risk returns has risk_level 'low' iff
\* total_risk < 5, 'medium' iff 5 <= total_risk < 10 and 'high' iff
\* total_risk >= 10 (an empty portfolio is 'low' with total risk 0), a
\* large-position warning for a position iff its share of the portfolio value
\* exceeds 15%, and a total-risk warning iff total_risk > max_portfolio_risk.
C24_ClassifiedByFixedRules ==
    \A i \in 1..Len(assess_results) :
        assess_results[i].success => ClassifiedByFixedRules(assess_results[i])

\* total risk exactly at the boundary 5 (also the limit): 'medium', no total-risk
\* warning, one large-position warning
C24_Witness ==
    /\ Len(assess_results) = 1
    /\ assess_results[1].success
    /\ assess_results[1].total_risk = RInt(5)
    /\ assess_results[1].risk_level = "medium"
    /\ assess_limits.max_portfolio_risk = 5
    /\ WarnedAbout(assess_results[1], "large_position", "BTC/USDT")
    /\ ~WarnedAbout(assess_results[1], "total_risk", "portfolio")

\* C25: calculate_portfolio_var reports VaR as the 5th-percentile return with
\* the sign of a loss (loss = -return) and Expected Shortfall as the mean of the
\* returns at or below that percentile, so the tail is never empty and the
\* reported Expected Shortfall is never below the reported VaR; with no active
\* positions both are 0.
C25_VarAndExpectedShortfall ==
    var_result.called =>
        IF ~var_active
        THEN var_result.var_percentage = RZero
             /\ var_result.expected_shortfall_percentage = RZero
        ELSE LET cutoff == percentile(portfolio_returns, 5)
                 tail == SelectSeq(portfolio_returns, LAMBDA r : RLe(r, cutoff))
             IN  /\ var_result.tail > 0
                 /\ REq(var_result.var_percentage, RMul(RSub(RZero, cutoff), RInt(100)))
                 /\ REq(var_result.expected_shortfall_percentage,
                        RMul(RSub(RZero, mean(tail)), RInt(100)))
                 /\ RLe(var_result.var_percentage, var_result.expected_shortfall_percentage)

\* C29: add_holding of quantity q at price p for a new holding followed by
\* remove_holding of the same q at the same p leaves the portfolio's
\* cash_balance and realized_pnl as they were before the two calls.
C29_RoundTripConservesCash ==
    (/\ ~book_start.present
     /\ Len(book_log) = 2
     /\ book_log[1].op = "add_holding" /\ book_log[2].op = "remove_holding"
     /\ book_log[2].success
     /\ book_log[1].quantity = book_log[2].quantity
     /\ book_log[1].price = book_log[2].price) =>
        /\ book.cash_balance = book_start.cash_balance
        /\ REq(book.realized_pnl, book_start.realized_pnl)

\* a required input of calculate_stop_loss is missing
StopInputsMissing(a) ==
    \/ a.method \notin {"percentage", "atr", "support_resistance"}
    \/ a.method = "support_resistance" /\ a.support_resistance = 0
    \/ a.method = "atr" /\ a.atr_multiplier = 0

\* neither a target percentage nor a stop price with a ratio is given
TakeProfitInputsMissing(target_percentage, stop_loss_price, risk_reward_ratio) ==
    target_percentage = 0 /\ (stop_loss_price[1] = 0 \/ risk_reward_ratio = 0)

\* C26: calculate_stop_loss fails exactly when the method is unknown, or
\* 'support_resistance' is chosen without a level, or 'atr' without a multiplier;
\* calculate_take_profit fails exactly when neither a target percentage nor a
\* stop price with a ratio is given; with their inputs present both succeed.
C26_FailsIffInputsMissing ==
    /\ stop_result.called => (~stop_result.success <=> StopInputsMissing(stop_args))
    /\ tp_result.called =>
          (~tp_result.success <=>
              TakeProfitInputsMissing(stop_args.target_percentage,
                                      stop_result.stop_loss_price,
                                      stop_args.risk_reward_ratio))

\* C30: every stop price calculate_stop_loss returns as a success is on the
\* protective side of the entry price: strictly below it for a Long, strictly
\* above it for a Short, whatever the method.
C30_StopOnProtectiveSide ==
    (stop_result.called /\ stop_result.success) =>
        IF IsLong(stop_args.position_type)
        THEN RLt(stop_result.stop_loss_price, RInt(stop_args.entry_price))
        ELSE RLt(RInt(stop_args.entry_price), stop_result.stop_loss_price)

\* a call of execute_risk_action whose exit was executed and committed
ExitCommitted == Len(trades') = Len(trades) + 1

\* a call of execute_risk_action that reported a failure
FailureReported ==
    /\ risk_result' # risk_result
    /\ risk_result'.action # "none"
    /\ ~risk_result'.success

\* C27: a notifier failure never changes the outcome of execute_risk_action: an
\* exit that was executed and committed is reported as a success, and a reported
\* failure implies that the position and the trade records are unchanged.
C27_NotifierFailureIsolated ==
    [][/\ ExitCommitted => risk_result'.success
       /\ FailureReported => (position' = position /\ trades' = trades)]_vars

\* C28: once a position is Closed, no execute_risk_action call changes its
\* quantity, exit price, exit time or stop, and no further trade is recorded.
C28_ClosedIsTerminal ==
    [][position.status = "closed" =>
          /\ position'.status = "closed"
          /\ position'.quantity = position.quantity
          /\ position'.exit_price = position.exit_price
          /\ position'.exit_time = position.exit_time
          /\ position'.stop_loss_price = position.stop_loss_price
          /\ trades' = trades]_vars

=============================================================================
